---- MODULE Spec2Model ----
(***************************************************************************)
(* AuthenticationService of backend/app/services/authentication.py:        *)
(* the credential hasher (hash_password / verify_password over passlib's   *)
(* bcrypt context), the token issuer (create_access_token_for_user), the   *)
(* token validator (get_email_from_token) and authenticate_user.           *)
(*                                                                         *)
(* Time is counted in minutes.  Strings that the code concatenates or that *)
(* bcrypt truncates (passwords, salts) are sequences of characters; the    *)
(* other strings are atoms.  A call's outcome is a record: kind "return"   *)
(* with a value, or kind "raise" with the exception that leaves the call.  *)
(***************************************************************************)
EXTENDS Integers, Sequences, FiniteSets

VARIABLES
    now,      \* the wall clock (UTC), in minutes
    db,       \* the user collection read by crud.user.get_by_email
    issued,   \* the issuer's calls whose token a caller still holds
    result    \* the last call: its operation, its arguments and its outcome

vars == <<now, db, issued, result>>

----------------------------------------------------------------------------
(* Bounds of the model *)

MaxTime == 2
MaxIssued == 1

----------------------------------------------------------------------------
(* Configuration: app.core.config.settings *)

SECRET_KEY == "settings-secret"
JWT_AUDIENCE == "app:auth"
JWT_ALGORITHM == "HS256"
ACCESS_TOKEN_EXPIRE_MINUTES == 2

\* The offset of the process's local time zone from UTC, in minutes: the zone
\* in which datetime.timestamp reads a naive datetime.  The service runs in UTC.
LocalUtcOffset == 0

HTTP_401_UNAUTHORIZED == 401

----------------------------------------------------------------------------
(* Values *)

NoneValue == [type |-> "NoneType"]

Returns(v) == [kind |-> "return", value |-> v]
Raises(e) == [kind |-> "raise", exc |-> e]

HTTPException(code, text) ==
    [kind |-> "raise", exc |-> "HTTPException", status_code |-> code,
     detail |-> text, headers |-> <<"WWW-Authenticate", "Bearer">>]

Emails == {"a@example.com", "b@example.com"}
SecretKeys == {SECRET_KEY, "other-secret"}
Audiences == {JWT_AUDIENCE, "app:other"}
Lifetimes == {-1, 1, ACCESS_TOKEN_EXPIRE_MINUTES}

Pad(c, n) == [i \in 1..n |-> c]

----------------------------------------------------------------------------
(* Credential hasher *)

\* bcrypt reads at most 72 bytes of its input; passlib's bcrypt handler cuts
\* the rest off silently (truncate_error is off in CryptContext(schemes=["bcrypt"])).
BcryptMaxBytes == 72
\* bcrypt.gensalt() is "$2b$12$" and 22 characters.
SaltLen == 29

Truncate(secret) ==
    IF Len(secret) <= BcryptMaxBytes THEN secret ELSE SubSeq(secret, 1, BcryptMaxBytes)

Salts == {Pad("s", SaltLen), Pad("t", SaltLen)}
\* bcrypt's own random salt inside the hash string: two hashes of one input differ.
HashRands == {"r1", "r2"}

PasswordLens == {1, BcryptMaxBytes + 1}
Passwords == {Pad("x", n - 1) \o <<c>> : n \in PasswordLens, c \in {"p", "q"}}

\* pwd_context.hash: a bcrypt hash string, its digest a one-way image of the
\* (truncated) secret; an ideal hash, so the digest is the secret it stands for.
pwd_context_hash(secret, rand) ==
    [scheme |-> "bcrypt", rand |-> rand, digest |-> Truncate(secret)]

\* Stored hashes that are no bcrypt hash string: another scheme, or cut short.
MalformedHashes ==
    {[scheme |-> "md5", rand |-> "r1", digest |-> <<"p">>],
     [scheme |-> "plain", rand |-> "r1", digest |-> <<>>]}

\* pwd_context.verify: identifies the hash's scheme among the context's schemes
\* (raises UnknownHashError when none matches), then compares.
pwd_context_verify(secret, hash) ==
    IF hash.scheme # "bcrypt" THEN Raises("UnknownHashError")
    ELSE Returns(hash.digest = Truncate(secret))

hash_password(password, salt, rand) == pwd_context_hash(password \o salt, rand)

verify_password(password, salt, hashed_password) ==
    pwd_context_verify(password \o salt, hashed_password)

\* generate_salt and the hash's randomness are the caller's nondeterministic choice.
create_salt_and_hashed_password(plaintext_password, salt, rand) ==
    [salt |-> salt, password |-> hash_password(plaintext_password, salt, rand)]

----------------------------------------------------------------------------
(* User records: models.UserInDB, and what else a caller may pass as a user *)

UserInDB(email, salt, password) ==
    [type |-> "UserInDB", email |-> email, salt |-> salt, password |-> password]

\* Valid identities handed to the issuer directly.
IdentityRecords ==
    {UserInDB(e, Pad("s", SaltLen), hash_password(<<"p">>, Pad("s", SaltLen), "r1")) :
        e \in Emails}

\* An absent user, and a value that carries an email but is no UserInDB.
InvalidUsers == {NoneValue, [type |-> "dict", email |-> "a@example.com"]}

\* crud.user.get_by_email: the record stored under the email, or None.
get_by_email(store, email) == store[email]

----------------------------------------------------------------------------
(* Tokens: PyJWT's encode and decode *)

\* An ideal signature: it stands for exactly the signed segments and the key.
Sign(alg, payload, key) == [alg |-> alg, payload |-> payload, key |-> key, flipped |-> FALSE]

jwt_encode(payload, key, algorithm) ==
    [kind |-> "jwt", alg |-> algorithm, payload |-> payload,
     sig |-> Sign(algorithm, payload, key)]

PyJWTErrors ==
    {"DecodeError", "InvalidAlgorithmError", "InvalidSignatureError",
     "ImmatureSignatureError", "ExpiredSignatureError", "InvalidAudienceError"}

DefaultOptions == [verify_exp |-> TRUE, verify_aud |-> TRUE]

\* jwt.decode at UTC time utc: the segments, the algorithm, the signature, then
\* the registered claims iat, exp, aud, each failure a PyJWTError subclass
\* (PyJWT 2.6 and later: a token is expired from the second of its exp on, and an
\* iat in the future is refused).
jwt_decode(token, key, audience, algorithms, options, utc) ==
    IF token.kind # "jwt" THEN Raises("DecodeError")
    ELSE IF token.alg \notin algorithms THEN Raises("InvalidAlgorithmError")
    ELSE IF token.sig # Sign(token.alg, token.payload, key)
        THEN Raises("InvalidSignatureError")
    ELSE IF token.payload.iat > utc THEN Raises("ImmatureSignatureError")
    ELSE IF options.verify_exp /\ token.payload.exp <= utc
        THEN Raises("ExpiredSignatureError")
    ELSE IF options.verify_aud /\ token.payload.aud # audience
        THEN Raises("InvalidAudienceError")
    ELSE Returns(token.payload)

\* models.JWTPayload(**claims): pydantic validation; the subject is required.
JWTPayload(claims) ==
    IF "sub" \in DOMAIN claims THEN Returns(claims) ELSE Raises("ValidationError")

----------------------------------------------------------------------------
(* Token issuer *)

\* The conversion in a process whose local time zone is a minute west of UTC.
timestamp_west(naive) == naive + 1

\* datetime.timestamp of a naive datetime: the datetime is read as local time.
timestamp(naive) == naive - LocalUtcOffset

\* utc is what datetime.utcnow() returns at the call.
create_access_token_for_user(user, secret_key, audience, expires_in, utc) ==
    IF user = NoneValue \/ user.type # "UserInDB" THEN Returns(NoneValue)
    ELSE LET jwt_meta == [aud |-> audience,
                          iat |-> timestamp(utc),
                          exp |-> timestamp(utc + expires_in)]
             jwt_creds == [sub |-> user.email]
             token_payload == [aud |-> jwt_meta.aud, iat |-> jwt_meta.iat,
                               exp |-> jwt_meta.exp, sub |-> jwt_creds.sub]
         IN Returns(jwt_encode(token_payload, secret_key, JWT_ALGORITHM))

----------------------------------------------------------------------------
(* Token validator *)

Unvalidated == HTTPException(HTTP_401_UNAUTHORIZED, "Could not validate token credentials.")

\* Variants of the jwt.decode call that leave a check out.
decode_token_no_exp(token, utc) ==
    jwt_decode(token, SECRET_KEY, JWT_AUDIENCE, {JWT_ALGORITHM},
               [DefaultOptions EXCEPT !.verify_exp = FALSE], utc)
decode_token_no_aud(token, utc) ==
    jwt_decode(token, SECRET_KEY, JWT_AUDIENCE, {JWT_ALGORITHM},
               [DefaultOptions EXCEPT !.verify_aud = FALSE], utc)

\* The jwt.decode call of get_email_from_token: the key and the audience are the
\* settings', whatever secret_key the caller passed.
decode_token(token, utc) ==
    jwt_decode(token, SECRET_KEY, JWT_AUDIENCE, {JWT_ALGORITHM}, DefaultOptions, utc)

\* An except clause that names jwt.PyJWTError alone.
CaughtOnlyPyJWT == PyJWTErrors

\* The exception classes of get_email_from_token's except clause.
Caught == PyJWTErrors \cup {"ValidationError"}

get_email_from_token(token, secret_key, utc) ==
    LET decoded_token == decode_token(token, utc)
        payload == IF decoded_token.kind = "return"
                   THEN JWTPayload(decoded_token.value) ELSE decoded_token
    IN IF payload.kind = "raise"
       THEN IF payload.exc \in Caught THEN Unvalidated ELSE payload
       ELSE Returns(payload.value.sub)

----------------------------------------------------------------------------
(* authenticate_user *)

Unauthenticated == HTTPException(HTTP_401_UNAUTHORIZED, "Authentication was unsuccessful.")

\* models.AccessToken(access_token=..., token_type="bearer"): access_token is a str.
AccessToken(access_token) ==
    IF access_token = NoneValue THEN Raises("ValidationError")
    ELSE Returns([access_token |-> access_token, token_type |-> "bearer"])

\* Variants of authenticate_user: one that tells the caller that the email is
\* unknown, one that does not verify the password.
authenticate_user_404(user, password, utc) ==
    IF user = NoneValue THEN HTTPException(404, "User not found.")
    ELSE LET verified == verify_password(password, user.salt, user.password)
         IN IF verified.kind = "raise" THEN verified
            ELSE IF ~verified.value THEN Unauthenticated
            ELSE AccessToken(
                    create_access_token_for_user(user, SECRET_KEY, JWT_AUDIENCE,
                                                 ACCESS_TOKEN_EXPIRE_MINUTES, utc).value)
authenticate_user_no_verify(user, password, utc) ==
    IF user = NoneValue THEN Unauthenticated
    ELSE AccessToken(
            create_access_token_for_user(user, SECRET_KEY, JWT_AUDIENCE,
                                         ACCESS_TOKEN_EXPIRE_MINUTES, utc).value)

\* user is what the awaited crud.user.get_by_email returned.
authenticate_user(user, password, utc) ==
    IF user = NoneValue THEN Unauthenticated
    ELSE LET verified == verify_password(password, user.salt, user.password)
         IN IF verified.kind = "raise" THEN verified
            ELSE IF ~verified.value THEN Unauthenticated
            ELSE AccessToken(
                    create_access_token_for_user(user, SECRET_KEY, JWT_AUDIENCE,
                                                 ACCESS_TOKEN_EXPIRE_MINUTES, utc).value)

----------------------------------------------------------------------------
(* The calls, as actions *)

Init ==
    /\ now = 0
    /\ db = [e \in Emails |-> NoneValue]
    /\ issued = {}
    /\ result = [op |-> "none"]

\* The record of an issuer call that returned a token: its arguments, its time
\* and the token.
Grant(user, secret_key, audience, expires_in, utc, token) ==
    [user |-> user, secret_key |-> secret_key, audience |-> audience,
     expires_in |-> expires_in, at |-> utc, token |-> token]

\* A token handed to a caller is kept while there is room for it.
Hold(grants, grant) ==
    IF grant.token # NoneValue /\ Cardinality(grants) < MaxIssued
    THEN grants \cup {grant} ELSE grants

\* The clock advances.
Tick ==
    /\ now < MaxTime
    /\ now' = now + 1
    /\ UNCHANGED <<db, issued, result>>

\* The (secret_key, audience, expires_in) a caller passes to the issuer: the
\* defaults, each positive or negative lifetime, another key, another audience.
IssueArgs ==
    {<<SECRET_KEY, JWT_AUDIENCE, m>> : m \in Lifetimes}
    \cup {<<k, JWT_AUDIENCE, ACCESS_TOKEN_EXPIRE_MINUTES>> : k \in SecretKeys}
    \cup {<<SECRET_KEY, a, ACCESS_TOKEN_EXPIRE_MINUTES>> : a \in Audiences}

\* create_access_token_for_user(user=..., secret_key=..., audience=..., expires_in=...)
Issue ==
    \E user \in IdentityRecords \cup InvalidUsers, args \in IssueArgs :
        LET out == create_access_token_for_user(user, args[1], args[2], args[3], now)
        IN /\ result' = [op |-> "issue", user |-> user, secret_key |-> args[1],
                         audience |-> args[2], expires_in |-> args[3],
                         at |-> now, out |-> out]
           /\ issued' = Hold(issued, Grant(user, args[1], args[2], args[3], now, out.value))
           /\ UNCHANGED <<now, db>>

\* What a caller may present as a bearer token: an issued token, an issued token
\* with a character of its signature flipped, with its subject replaced, or with
\* its header's algorithm replaced, a string that is no token, and a token that
\* another holder of the key signed without a subject.
Flip(t) == [t EXCEPT !.sig.flipped = TRUE]
Resubject(t) ==
    [t EXCEPT !.payload.sub = IF @ = "a@example.com" THEN "b@example.com"
                              ELSE "a@example.com"]
Garbage == [kind |-> "garbage"]
NoSubject(utc) ==
    jwt_encode([aud |-> JWT_AUDIENCE, iat |-> timestamp(utc),
                exp |-> timestamp(utc + ACCESS_TOKEN_EXPIRE_MINUTES)],
               SECRET_KEY, JWT_ALGORITHM)

Unsecured(t) == [t EXCEPT !.alg = "none"]

Held == {g.token : g \in issued}

Presented ==
    Held
    \cup {Flip(t) : t \in Held}
    \cup {Resubject(t) : t \in Held}
    \cup {Unsecured(t) : t \in Held}
    \cup {Garbage, NoSubject(now)}

\* get_email_from_token(token=..., secret_key=...)
Validate ==
    \E token \in Presented, secret_key \in SecretKeys :
        /\ result' = [op |-> "validate", token |-> token, secret_key |-> secret_key,
                      at |-> now, out |-> get_email_from_token(token, secret_key, now)]
        /\ UNCHANGED <<now, db, issued>>

\* Account creation: create_salt_and_hashed_password, and the record stored.
Register ==
    \E email \in Emails, plaintext \in Passwords, salt \in Salts, rand \in HashRands :
        LET update == create_salt_and_hashed_password(plaintext, salt, rand)
        IN /\ db[email] = NoneValue
           /\ db' = [db EXCEPT ![email] = UserInDB(email, update.salt, update.password)]
           /\ result' = [op |-> "register", email |-> email, plaintext |-> plaintext]
           /\ UNCHANGED <<now, issued>>

\* A record whose stored hash is no bcrypt hash (written by another system).
Import ==
    \E email \in Emails, salt \in Salts, hash \in MalformedHashes :
        /\ db[email] = NoneValue
        /\ db' = [db EXCEPT ![email] = UserInDB(email, salt, hash)]
        /\ result' = [op |-> "import", email |-> email]
        /\ UNCHANGED <<now, issued>>

\* authenticate_user(db, email, password)
Authenticate ==
    \E email \in Emails, password \in Passwords :
        LET user == get_by_email(db, email)
            out == authenticate_user(user, password, now)
        IN /\ result' = [op |-> "authenticate", email |-> email, password |-> password,
                         user |-> user, at |-> now, out |-> out]
           /\ issued' = Hold(issued,
                             Grant(user, SECRET_KEY, JWT_AUDIENCE,
                                   ACCESS_TOKEN_EXPIRE_MINUTES, now,
                                   IF out.kind = "return" THEN out.value.access_token
                                   ELSE NoneValue))
           /\ UNCHANGED <<now, db>>

\* verify_password on a hash that hash_password made of (password, salt), or on a
\* malformed one.
HashVerify ==
    \E password \in Passwords, candidate \in Passwords, salt \in Salts,
       rand \in HashRands, malformed \in MalformedHashes \cup {NoneValue} :
        LET hashed == IF malformed = NoneValue
                      THEN hash_password(password, salt, rand) ELSE malformed
        IN /\ result' = [op |-> "verify", password |-> password, salt |-> salt,
                         candidate |-> candidate, hashed |-> hashed,
                         out |-> verify_password(candidate, salt, hashed)]
           /\ UNCHANGED <<now, db, issued>>

----------------------------------------------------------------------------
(* Specifications *)

\* The token issuer and validator under a running clock.
NextToken == Tick \/ Issue \/ Validate
SpecToken == Init /\ [][NextToken]_vars

\* Account creation and authentication under a running clock.
NextAuth == Tick \/ Register \/ Authenticate
SpecAuth == Init /\ [][NextAuth]_vars

\* The same, over a store that also holds records with foreign hashes.
NextStore == Register \/ Import \/ Authenticate
SpecStore == Init /\ [][NextStore]_vars

\* The credential hasher alone.
NextHasher == HashVerify
SpecHasher == Init /\ [][NextHasher]_vars

\* The whole service.
Next == Tick \/ Issue \/ Validate \/ Register \/ Import \/ Authenticate \/ HashVerify
Spec == Init /\ [][Next]_vars

----------------------------------------------------------------------------
(* Properties *)

\* The issuer calls that returned the token of the last validation.
GrantsOfResult == {g \in issued : g.token = result.token}

DefaultConfig(g) == g.secret_key = SECRET_KEY /\ g.audience = JWT_AUDIENCE

Expiry ==
    result.op = "validate" =>
        /\ result.out.kind = "return" => result.at < result.token.payload.exp
        /\ \A g \in GrantsOfResult : g.expires_in < 0 => result.out = Unvalidated

\* A token valid in everything but time is rejected once the clock reached its exp.
ExpiryWitness ==
    /\ result.op = "validate"
    /\ \E g \in GrantsOfResult :
        /\ DefaultConfig(g) /\ g.expires_in > 0
        /\ result.at >= g.token.payload.exp
        /\ result.out = Unvalidated

\* C3: a token issued for an audience other than the validator's expected
\* audience is rejected.
AudienceBinding ==
    result.op = "validate" =>
        \A g \in GrantsOfResult : g.audience # JWT_AUDIENCE => result.out = Unvalidated

\* Rejected with the right key and within the lifetime: for the audience alone.
AudienceBindingWitness ==
    /\ result.op = "validate"
    /\ \E g \in GrantsOfResult :
        /\ g.audience # JWT_AUDIENCE /\ g.secret_key = SECRET_KEY
        /\ g.at <= result.at /\ result.at < g.token.payload.exp
        /\ result.out = Unvalidated

\* C7: a validation either returns the subject or raises the one 401
\* "could not validate" failure; no other exception leaves the call.
UniformValidationFailure ==
    result.op = "validate" =>
        \/ result.out = Unvalidated
        \/ result.out.kind = "return"

\* A token that jwt.decode accepts and the claims schema rejects ends in the 401.
UniformValidationFailureWitness ==
    /\ result.op = "validate"
    /\ decode_token(result.token, result.at).kind = "return"
    /\ result.out = Unvalidated

\* C9: a token validates under the secret_key passed to get_email_from_token:
\* issued with that key it returns the subject, signed with another it is rejected.
KeyInjected ==
    result.op = "validate" =>
        \A g \in GrantsOfResult :
            (g.audience = JWT_AUDIENCE /\ g.expires_in > 0
                /\ result.at < g.token.payload.exp)
            => result.out = IF g.secret_key = result.secret_key
                            THEN Returns(g.user.email) ELSE Unvalidated

\* C6: issuing for an absent or invalid identity fails and returns nothing.
IssuanceFailsLoudly ==
    (result.op = "issue" /\ result.user \in InvalidUsers) => result.out.kind = "raise"

\* Whether the password verification of the last authentication succeeded.
Verified ==
    /\ result.user # NoneValue
    /\ verify_password(result.password, result.user.salt, result.user.password)
         = Returns(TRUE)

\* C4: an authentication for an email without a record and one whose password
\* does not verify end in the same failure: the one 401, same detail and headers.
EnumerationSafe ==
    (result.op = "authenticate" /\ ~Verified) => result.out = Unauthenticated

\* The failure of a wrong password for an email that has a record.
EnumerationSafeWitness ==
    /\ result.op = "authenticate"
    /\ result.user # NoneValue
    /\ ~Verified
    /\ result.out = Unauthenticated

\* C10: an authentication returns a token only when the lookup returned a record
\* and the password verified against it; the token is a signed token whose
\* subject is the record's email.
NoTokenWithoutVerification ==
    (result.op = "authenticate" /\ result.out.kind = "return") =>
        /\ result.user = db[result.email]
        /\ Verified
        /\ LET token == result.out.value.access_token
           IN /\ token # NoneValue
              /\ token.kind = "jwt"
              /\ token.payload.sub = result.user.email
              /\ token.sig = Sign(JWT_ALGORITHM, token.payload, SECRET_KEY)

NoTokenWithoutVerificationWitness ==
    /\ result.op = "authenticate"
    /\ result.out.kind = "return"
    /\ result.out.value.access_token.payload.sub = result.email

\* C5: verify_password(P', S, hash_password(P, S)) is true exactly when P' = P.
VerifyMatchesExactly ==
    (result.op = "verify" /\ result.hashed \notin MalformedHashes) =>
        result.out = Returns(result.candidate = result.password)

\* C8: on a malformed stored hash verify_password returns false, and
\* authenticate_user ends in the 401 authentication failure.
MalformedHashIsFailure ==
    /\ (result.op = "verify" /\ result.hashed \in MalformedHashes)
        => result.out = Returns(FALSE)
    /\ (result.op = "authenticate" /\ result.user # NoneValue
            /\ result.user.password \in MalformedHashes)
        => result.out = Unauthenticated

====
